---- MODULE Spec2Model ----
(***************************************************************************)
(* A model of the Region class of the AST library (region.c): the Negated  *)
(* attribute, astNegate, astOverlap/astOverlapX and astMapRegion.          *)
(*                                                                         *)
(* Coordinates are integers on one axis.  The concrete Region classes are  *)
(* not part of region.c; two of them are modelled from the design          *)
(* document: "Box" (the inside of a closed curve, here lo..hi) and         *)
(* "Interval" (a half line lo..infinity, which has no finite boundary      *)
(* whatever its Negated attribute is).                                     *)
(***************************************************************************)
EXTENDS Integers, Sequences, FiniteSets, TLC

VARIABLES reg,      \* the two Regions the caller holds
          status,   \* the global AST error status
          last,     \* the most recent call and what it returned
          held,     \* the other objects the caller holds pointers to
          grid      \* the data array the caller passes to astMask

vars == <<reg, status, last, held, grid>>

(***************************************************************************)
(* Bounds of the model.                                                    *)
(***************************************************************************)
MaxCoord == 3       \* Box corners are drawn from 0..MaxCoord

(***************************************************************************)
(* Program constants.                                                      *)
(***************************************************************************)
INT_MAX  == 2147483647      \* -INT_MAX marks an attribute that is not set
AST__BAD == -1000000        \* the "bad" axis value

RegIds  == {1, 2}
Frames  == {"F", "G"}       \* two coordinate systems with no conversion between them
OK      == "OK"
Faults  == {"none", "EqualNegated"}   \* which collaborator call fails, if any
\* How the second Region is constructed: its Frame, the half width of the
\* uncertainty Box supplied (0: none) and the Closed attribute given in the
\* options (-INT_MAX: none given).
Constructions == { <<"F", 0, 0 - INT_MAX>>, <<"F", 2, 0>>, <<"G", 0, 0 - INT_MAX>> }

NullRegion == [class |-> "NULL"]
NullMesh   == <<>>

(***************************************************************************)
(* Mappings and FrameSets (collaborators).  A Mapping adds "shift" in the  *)
(* forward direction; fwd/inv say which directions are defined.            *)
(***************************************************************************)
UnitMap == [shift |-> 0, fwd |-> TRUE, inv |-> TRUE]

ShiftMap(k) == [shift |-> k, fwd |-> TRUE, inv |-> TRUE]

astIsAUnitMap(map) == map.shift = 0

astCmpMap(m1, m2) ==
  [shift |-> m1.shift + m2.shift, fwd |-> m1.fwd /\ m2.fwd, inv |-> m1.inv /\ m2.inv]

astInvert(map) == [shift |-> 0 - map.shift, fwd |-> map.inv, inv |-> map.fwd]

\* Transform one axis value; a bad value stays bad.
TranPoint(map, p, forward) ==
  IF p = AST__BAD THEN AST__BAD
  ELSE IF forward THEN p + map.shift ELSE p - map.shift

astTransform(map, ps, forward) ==
  [i \in 1..Len(ps) |-> TranPoint(map, ps[i], forward)]

\* A FrameSet: frm[i] is Frame i, off[i] the shift from Frame 1 to Frame i.
astFrameSet(f) == [frm |-> <<f>>, off |-> <<0>>, base |-> 1, current |-> 1]

astAddFrame(fs, iframe, map, frame) ==
  [frm     |-> Append(fs.frm, frame),
   off     |-> Append(fs.off, fs.off[iframe] + map.shift),
   base    |-> fs.base,
   current |-> Len(fs.frm) + 1]

DropAt(s, i) == [j \in 1..(Len(s) - 1) |-> IF j < i THEN s[j] ELSE s[j + 1]]

astRemoveFrame(fs, iframe) ==
  [frm     |-> DropAt(fs.frm, iframe),
   off     |-> DropAt(fs.off, iframe),
   base    |-> IF fs.base > iframe THEN fs.base - 1 ELSE fs.base,
   current |-> IF fs.current > iframe THEN fs.current - 1 ELSE fs.current]

astGetFrame(fs, iframe) == fs.frm[iframe]

astGetMapping(fs, i1, i2) == ShiftMap(fs.off[i2] - fs.off[i1])

\* astConvert between two Frames: a conversion exists only within one system.
Convertible(f1, f2) == f1 = f2

(***************************************************************************)
(* The Negated, Closed and RegionFS attributes.                            *)
(***************************************************************************)
GetNegated(this) == IF this.negated = 0 - INT_MAX THEN 0 ELSE this.negated

\* Variant: setting Negated also drops the cached mesh.
SetNegated_DropsMesh(this, value) ==
  [this EXCEPT !.negated = IF value # 0 THEN 1 ELSE 0, !.basemesh = NullMesh]

SetNegated(this, value) == [this EXCEPT !.negated = IF value # 0 THEN 1 ELSE 0]

TestNegated(this) == this.negated # 0 - INT_MAX

GetClosed(this) == IF this.closed = 0 - INT_MAX THEN 1 ELSE this.closed

SetClosed(this, value) == [this EXCEPT !.closed = IF value # 0 THEN 1 ELSE 0]

GetRegionFS(this) == IF this.regionfs = 0 - INT_MAX THEN 1 ELSE this.regionfs

\* Variant: setting RegionFS always clears it.
SetRegionFS_Clears(this, value) == [this EXCEPT !.regionfs = 0]

SetRegionFS(this, value) == [this EXCEPT !.regionfs = IF value # 0 THEN 1 ELSE 0]

\* The number of axes of a Frame.
FrameNaxes(frame) ==
  IF frame = "F2" THEN 2 ELSE IF frame = "F3" THEN 3 ELSE IF frame = "F4" THEN 4 ELSE 1

\* The number of axes of a Region: that of the current Frame of its FrameSet.
GetNaxes(this) == FrameNaxes(this.frameset.frm[this.frameset.current])

\* The MeshSize attribute.  Setting or clearing it annuls the cached mesh;
\* meshfor is the MeshSize the cached mesh was made for (0: no cached mesh).
TestMeshSize(this) == this.meshsize # 0 - INT_MAX

GetMeshSize(this) ==
  IF this.meshsize = 0 - INT_MAX
  THEN IF GetNaxes(this) = 1 THEN 2 ELSE IF GetNaxes(this) = 2 THEN 200 ELSE 2000
  ELSE this.meshsize

\* Variant: the value is stored as it is given.
SetMeshSize_NoMinimum(this, value) ==
  [this EXCEPT !.basemesh = NullMesh, !.meshfor = 0, !.meshsize = value]

SetMeshSize(this, value) ==
  [this EXCEPT !.basemesh = NullMesh, !.meshfor = 0,
               !.meshsize = IF value > 5 THEN value ELSE 5]

ClearMeshSize(this) ==
  [this EXCEPT !.basemesh = NullMesh, !.meshfor = 0, !.meshsize = 0 - INT_MAX]

(***************************************************************************)
(* The primitives each concrete Region class supplies.                     *)
(***************************************************************************)
\* The boundary of the Region in its base Frame.
Boundary(this) == { this.points[i] : i \in 1..Len(this.points) }

\* Is base Frame position p inside the un-negated, open Region?
Interior(this, p) ==
  IF this.class = "Box" THEN this.points[1] < p /\ p < this.points[2]
  ELSE this.points[1] < p

\* Is base Frame position p inside the Region (Negated and Closed applied)?
Inside(this, p) ==
  IF p \in Boundary(this) THEN GetClosed(this) = 1
  ELSE Interior(this, p) # (GetNegated(this) = 1)

\* The Region used as a Mapping: positions (in the current Frame) that are
\* outside the Region come out bad.
RegionTransform(this, ps) ==
  LET map == astGetMapping(this.frameset, this.frameset.base, this.frameset.current)
  IN  [i \in 1..Len(ps) |->
         IF ps[i] # AST__BAD /\ Inside(this, TranPoint(map, ps[i], FALSE))
         THEN ps[i] ELSE AST__BAD]

\* The half width of an uncertainty Box (a missing one has none).
HalfWidth(unc) ==
  IF unc = NullRegion THEN 0 ELSE (unc.points[2] - unc.points[1]) \div 2

\* astRegCentre of a Box: move its centre to base Frame position cen.
RegCentre(this, cen) ==
  [this EXCEPT !.points = <<cen - HalfWidth(this), cen + HalfWidth(this)>>]

Dist(p, q) == IF p < q THEN q - p ELSE p - q

\* A class with a boundary of finite length returns its mesh; an Interval
\* reports an error instead (it returns no mesh).
HasBaseMesh(this) == this.class = "Box"

RegBaseMesh(this) == IF HasBaseMesh(this) THEN this.points ELSE NullMesh

(***************************************************************************)
(* Region methods of region.c.                                             *)
(***************************************************************************)
\* The implementation of the base class: bounded unless negated.
GetBounded(this) == GetNegated(this) = 0

\* astGetBounded: 0 while the status is set, else the method of the class.
astGetBounded(this, st) ==
  IF st # OK THEN FALSE
  ELSE IF this.class = "Interval" THEN FALSE
  ELSE GetBounded(this)

\* Variant: astNegate sets Negated instead of toggling it.
Negate_Sets(this, st) ==
  IF st # OK THEN this
  ELSE SetNegated(this, 1)

\* astNegate: nothing while the status is set, else toggle Negated.
Negate(this, st) ==
  IF st # OK THEN this
  ELSE SetNegated(this, IF GetNegated(this) # 0 THEN 0 ELSE 1)

\* Variant: Equal without the comparison of the Negated attributes.
Equal_IgnoresNegated(this, that) ==
  /\ this.class = that.class
  /\ this.points = that.points
  /\ astGetFrame(this.frameset, this.frameset.base)
       = astGetFrame(that.frameset, that.frameset.base)
  /\ astGetFrame(this.frameset, this.frameset.current)
       = astGetFrame(that.frameset, that.frameset.current)
  /\ astGetMapping(this.frameset, this.frameset.base, this.frameset.current)
       = astGetMapping(that.frameset, that.frameset.base, that.frameset.current)
  /\ GetClosed(this) = GetClosed(that)

Equal(this, that) ==
  /\ this.class = that.class
  /\ this.points = that.points
  /\ astGetFrame(this.frameset, this.frameset.base)
       = astGetFrame(that.frameset, that.frameset.base)
  /\ astGetFrame(this.frameset, this.frameset.current)
       = astGetFrame(that.frameset, that.frameset.current)
  /\ astGetMapping(this.frameset, this.frameset.base, this.frameset.current)
       = astGetMapping(that.frameset, that.frameset.base, that.frameset.current)
  /\ GetNegated(this) = GetNegated(that)
  /\ GetClosed(this) = GetClosed(that)

RegMapping(this) ==
  astGetMapping(this.frameset, this.frameset.base, this.frameset.current)

\* Variant: only the inverse transformation is asked for.
MapStatus_InverseOnly(map, st) ==
  IF ~map.inv THEN "AST__NODEF"
  ELSE st

\* The check MapRegion makes of the supplied Mapping.
MapStatus(map, st) ==
  IF ~map.inv THEN "AST__NODEF"
  ELSE IF ~map.fwd THEN "AST__NODEF"
  ELSE st

\* The components of a Region that are pointers to other objects.
PointerFields == {"frameset", "points", "basemesh", "unc"}

\* Variant: Copy leaves the FrameSet pointer of the original in the copy.
DeepCopied_NoFrameSet == {"points", "basemesh", "unc"}

\* The components of which Copy makes a copy of its own for the new Region.
DeepCopied == {"frameset", "points", "basemesh", "unc"}

\* The components a copy has in common with the Region it was copied from:
\* a change made to one of them through either Region shows in both.
CopyShares == PointerFields \ DeepCopied

\* astCopy of a Region: a Region with the same values.
Copy(this) == this

\* MapRegion: the Region returned (NullRegion for a NULL pointer), the
\* status, and the Region supplied as it is after the call: the new Frame is
\* added to the FrameSet of the copy, which is the FrameSet of the Region
\* supplied if the copy has that component in common with it.
MapRegion(this, map, frame, st) ==
  IF st # OK THEN [region |-> NullRegion, status |-> st, this |-> this]
  ELSE
    LET st1    == MapStatus(map, st)
        icurr  == this.frameset.current
        fs1    == astAddFrame(this.frameset, icurr, map, frame)
        fs2    == astRemoveFrame(fs1, icurr)
        result == SetRegionFS([Copy(this) EXCEPT !.frameset = fs2], 1)
    IN  [region |-> IF st1 # OK THEN NullRegion ELSE result,
         status |-> st1,
         this   |-> IF st1 = OK /\ "frameset" \in CopyShares
                    THEN [this EXCEPT !.frameset = fs2] ELSE this]

SetRegFS(this, frm) ==
  [this EXCEPT !.frameset = astAddFrame(astFrameSet(frm), 1, UnitMap, frm)]

UncClasses == {"Box", "Circle", "Ellipse"}

\* The uncertainty Region stored by SetUnc: u1, the Region supplied mapped
\* into the base Frame, is made bounded and centred on position cen.
StoredUnc(u1, cen) ==
  LET u2 == IF ~astGetBounded(u1, OK) THEN Negate(u1, OK) ELSE u1
      u3 == IF astIsAUnitMap(RegMapping(u2)) THEN SetRegionFS(u2, 0) ELSE u2
  IN  RegCentre(u3, TranPoint(RegMapping(u3), cen, TRUE))

\* Variant: the uncertainty Region already stored is kept.
AnnulUnc_Keeps(this) == this

\* Annul the uncertainty Region stored in this, if any.
AnnulUnc(this) == [this EXCEPT !.unc = NullRegion, !.defunc = 1]

\* SetUnc: the Region after the call and the status.
SetUnc(this, unc, st) ==
  IF st # OK THEN [reg |-> this, status |-> st]
  ELSE IF unc = NullRegion
  THEN [reg |-> AnnulUnc(this), status |-> st]
  ELSE IF unc.class \in UncClasses
          /\ Convertible(astGetFrame(unc.frameset, unc.frameset.current),
                         astGetFrame(this.frameset, this.frameset.base))
  THEN [reg |-> [AnnulUnc(this) EXCEPT
                   !.unc = StoredUnc(MapRegion(unc, UnitMap,
                                               astGetFrame(this.frameset, this.frameset.base),
                                               OK).region,
                                     this.points[1]),
                   !.defunc = 0],
        status |-> st]
  ELSE [reg |-> AnnulUnc(this), status |-> "AST__BADIN"]

\* Variant: the status is not looked at.
ClearUnc_Always(this, st) == AnnulUnc(this)

\* ClearUnc: the Region after the call.
ClearUnc(this, st) == IF st # OK THEN this ELSE AnnulUnc(this)

(***************************************************************************)
(* Construction.                                                           *)
(***************************************************************************)
astInitRegion(name, frame, pset, unc) ==
  LET new == [class    |-> name,
              points   |-> pset,
              frameset |-> astFrameSet(frame),
              negated  |-> 0 - INT_MAX,
              closed   |-> 0 - INT_MAX,
              regionfs |-> 0 - INT_MAX,
              meshsize |-> 0 - INT_MAX,
              basemesh |-> NullMesh,
              meshfor  |-> 0,
              unc      |-> NullRegion,
              defunc   |-> 1]
  IN  SetUnc(SetRegFS(new, frame), unc, OK).reg

\* The uncertainty Region a caller supplies: none, or a Box of half width hw.
UncBox(hw, frame) ==
  IF hw = 0 THEN NullRegion
  ELSE astInitRegion("Box", frame, <<0 - hw, hw>>, NullRegion)

Shapes ==
  { <<"Box", <<lo, hi>>>> : lo \in 0..MaxCoord, hi \in 0..MaxCoord } \cup
  { <<"Interval", <<lo>>>> : lo \in {0, MaxCoord - 1} }

ValidShape(s) == s[1] = "Box" => s[2][1] < s[2][2]

\* The shapes of the first Region: those with lower limit 0.
Shapes1 == { s \in Shapes : s[2][1] = 0 }

\* RegMesh: the Region after the call (the base mesh is cached in it), the
\* mesh in the current Frame and the status.
RegMesh(this, st) ==
  IF st # OK THEN [reg |-> this, mesh |-> NullMesh, status |-> st]
  ELSE
    LET st1   == IF this.basemesh = NullMesh /\ ~HasBaseMesh(this)
                 THEN "AST__INTER(RegBaseMesh)" ELSE st
        this1 == IF this.basemesh = NullMesh
                 THEN [this EXCEPT !.basemesh = RegBaseMesh(this),
                                   !.meshfor = IF HasBaseMesh(this)
                                               THEN GetMeshSize(this) ELSE 0]
                 ELSE this
        map   == RegMapping(this1)
    IN  [reg    |-> this1,
         mesh   |-> IF st1 # OK THEN NullMesh
                    ELSE IF astIsAUnitMap(map) THEN this1.basemesh
                    ELSE astTransform(map, this1.basemesh, TRUE),
         status |-> st1]

\* A Box covering 1.0E-6 of the bounding box: of no width on the integers.
GetDefUnc(this) ==
  astInitRegion("Box", astGetFrame(this.frameset, this.frameset.base), <<0, 0>>, NullRegion)

\* The uncertainty Region stored in this, in the Frame asked for.
GetStoredUnc(this, ifrm) ==
  [reg |-> this,
   unc |-> IF ifrm = "BASE" \/ astIsAUnitMap(RegMapping(this)) THEN this.unc
           ELSE MapRegion(this.unc, RegMapping(this),
                          astGetFrame(this.frameset, this.frameset.current), OK).region]

\* GetUnc: the Region after the call (a default uncertainty is stored in it
\* when it has none) and the uncertainty Region returned, which refers to
\* the base or the current Frame of the Region.
GetUnc(this, ifrm, st) ==
  IF st # OK THEN [reg |-> this, unc |-> NullRegion]
  ELSE IF this.unc = NullRegion
  THEN GetStoredUnc([this EXCEPT !.unc = GetDefUnc(this), !.defunc = 1], ifrm)
  ELSE GetStoredUnc(this, ifrm)

\* Variant: any stored uncertainty Region counts as supplied by the user.
TestUnc_AnyStored(this) == this.unc # NullRegion

TestUnc(this) == this.unc # NullRegion /\ this.defunc = 0

\* RegPins of a concrete class: do all the positions (base Frame) fall on
\* the boundary, to within the uncertainty of the Region (tunc) and of the
\* positions (unc)?
RegPins(this, pset, tunc, unc) ==
  \A i \in 1..Len(pset) :
     /\ pset[i] # AST__BAD
     /\ \E b \in Boundary(this) : Dist(pset[i], b) <= HalfWidth(tunc) + HalfWidth(unc)

(***************************************************************************)
(* astOverlap.                                                             *)
(***************************************************************************)
Swap23(result) == IF result = 2 THEN 3 ELSE IF result = 3 THEN 2 ELSE result

AllGood(ps) == \A i \in 1..Len(ps) : ps[i] # AST__BAD

\* Variant: the mesh is never taken to be wholly outside.
AllBad_Never(ps) == FALSE

AllBad(ps) == \A i \in 1..Len(ps) : ps[i] = AST__BAD

\* The boundaries are equivalent: identical Regions or mutually exclusive.
PinsResult(bounded1, bounded2) == IF bounded1 = bounded2 THEN 5 ELSE 6

\* Variant: no code for an unbounded second Region wholly inside.
InsideResult_Zero(bounded2) == IF bounded2 THEN 3 ELSE 0

\* The whole mesh of the second Region is inside the first Region.
InsideResult(bounded2) == IF bounded2 THEN 3 ELSE 4

\* Variant: the two codes exchanged.
HoleResult_Swapped(bounded2) == IF bounded2 THEN 2 ELSE 1

\* The whole mesh of the second Region is in a hole of the unbounded first
\* Region.
HoleResult(bounded2) == IF bounded2 THEN 1 ELSE 2

\* Variant: the two codes exchanged.
FirstPointResult_Swapped(first) == IF first = AST__BAD THEN 2 ELSE 1

\* The first Region is bounded: its boundary is all inside or all outside
\* the second Region, as its first mesh point is.
FirstPointResult(first) == IF first = AST__BAD THEN 1 ELSE 2

\* Variant: the error is never reported.
IndeterminateStatus_Silent(bnd_this, bnd_that, st) == st

\* The error reported when neither Region has a finite boundary.
IndeterminateStatus(bnd_this, bnd_that, st) ==
  IF ~bnd_this /\ ~bnd_that /\ st = OK THEN "AST__INTER(astOverlap)" ELSE st

\* bnd_this, bnd_that: the Region is bounded, or is bounded once negated.
\* Gives the Region after the two astNegate calls and the flag.
FiniteBoundary(this, st) ==
  IF astGetBounded(this, st) THEN [reg |-> this, bnd |-> TRUE]
  ELSE LET neg == Negate(this, st)
       IN  [reg |-> Negate(neg, st), bnd |-> astGetBounded(neg, st)]

\* The last test of OverlapX: m1 is what astRegMesh( reg1 ) gave; the first
\* point of that mesh is looked for in reg2.
OverlapFirst(reg2, m1) ==
  [result |-> IF m1.status # OK THEN 0
              ELSE FirstPointResult(
                     RegionTransform(reg2, astTransform(UnitMap, m1.mesh, FALSE))[1]),
   reg1 |-> m1.reg, reg2 |-> reg2, status |-> m1.status]

\* The tests OverlapX makes of the mesh of reg2 (in the current Frame of
\* reg1): u1 and u2 are what astGetUnc gave for reg1 (base Frame) and for
\* reg2 (current Frame).
OverlapTests(bnd1, mesh, u1, u2) ==
  LET map_reg1 == astGetMapping(u1.reg.frameset, u1.reg.frameset.current,
                                u1.reg.frameset.base)
      cmap     == UnitMap
      map      == astCmpMap(cmap, map_reg1)
      frm_reg1 == astGetFrame(u1.reg.frameset, u1.reg.frameset.current)
      unc1     == MapRegion(u2.unc, map, frm_reg1, OK).region
      ps2      == RegionTransform(u1.reg, astTransform(cmap, mesh, TRUE))
  IN  IF RegPins(u1.reg, astTransform(map, mesh, TRUE), u1.unc, unc1)
      THEN [result |-> PinsResult(astGetBounded(u1.reg, OK), astGetBounded(u2.reg, OK)),
            reg1 |-> u1.reg, reg2 |-> u2.reg, status |-> OK]
      ELSE IF AllGood(ps2)
      THEN [result |-> InsideResult(astGetBounded(u2.reg, OK)),
            reg1 |-> u1.reg, reg2 |-> u2.reg, status |-> OK]
      ELSE IF ~AllBad(ps2)
      THEN [result |-> 4, reg1 |-> u1.reg, reg2 |-> u2.reg, status |-> OK]
      ELSE IF ~astGetBounded(u1.reg, OK)
      THEN [result |-> HoleResult(astGetBounded(u2.reg, OK)),
            reg1 |-> u1.reg, reg2 |-> u2.reg, status |-> OK]
      ELSE IF ~bnd1
      THEN [result |-> 0, reg1 |-> u1.reg, reg2 |-> u2.reg,
            status |-> "AST__INTER(astOverlap)"]
      ELSE OverlapFirst(u2.reg, RegMesh(u1.reg, OK))

\* m2 is what astRegMesh( reg2 ) gave: without a mesh nothing is tested.
OverlapMeshOf(reg1, bnd1, m2) ==
  IF m2.status # OK
  THEN [result |-> 0, reg1 |-> reg1, reg2 |-> m2.reg, status |-> m2.status]
  ELSE OverlapTests(bnd1, m2.mesh, GetUnc(reg1, "BASE", OK),
                    GetUnc(m2.reg, "CURRENT", OK))

\* The part of OverlapX run when a conversion between the two Regions
\* exists: reg2 supplies the boundary mesh, reg1 is tested against it.
\* Gives the result and the two Regions and the status after it.
OverlapMesh(reg1, reg2, bnd1, st) == OverlapMeshOf(reg1, bnd1, RegMesh(reg2, st))

\* The end of OverlapX: om is what the tests gave for reg1 and reg2; the
\* codes 2 and 3 are exchanged when reg1 is "that", and the result is 0
\* when the status is set.
OverlapResult(om, swapped) ==
  [result |-> IF om.status # OK THEN 0
              ELSE IF swapped THEN Swap23(om.result) ELSE om.result,
   this   |-> IF swapped THEN om.reg2 ELSE om.reg1,
   that   |-> IF swapped THEN om.reg1 ELSE om.reg2,
   status |-> om.status]

\* OverlapX once reg1 and reg2 are chosen: the conversion is looked for and
\* the tests are made.
OverlapRegs(reg1, reg2, bnd1, st3, swapped) ==
  OverlapResult(
    IF st3 = OK /\ Convertible(astGetFrame(reg2.frameset, reg2.frameset.current),
                               astGetFrame(reg1.frameset, reg1.frameset.current))
    THEN OverlapMesh(reg1, reg2, bnd1, st3)
    ELSE [result |-> 0, reg1 |-> reg1, reg2 |-> reg2, status |-> st3],
    swapped)

\* OverlapX once bnd_this and bnd_that are known: reg1 is "this" if "that"
\* has a finite boundary, and "that" otherwise.
OverlapBounds(fb_this, fb_that, st2) ==
  IF fb_that.bnd
  THEN OverlapRegs(fb_this.reg, fb_that.reg, fb_this.bnd,
                   IndeterminateStatus(fb_this.bnd, fb_that.bnd, st2), FALSE)
  ELSE OverlapRegs(fb_that.reg, fb_this.reg, fb_that.bnd,
                   IndeterminateStatus(fb_this.bnd, fb_that.bnd, st2), TRUE)

\* OverlapX from the second equality test: neg is "this" negated, st2 the
\* status after astEqual( neg, that ), and this1 is "this" after the
\* astNegate that follows.
OverlapNegated(that, neg, st2, this1) ==
  IF st2 = OK /\ Equal(neg, that)
  THEN [result |-> 6, this |-> this1, that |-> that, status |-> st2]
  ELSE OverlapBounds(FiniteBoundary(this1, st2), FiniteBoundary(that, st2), st2)

\* The status after the astEqual call made while "this" is negated.
EqualStatus(fault) == IF fault = "EqualNegated" THEN "AST__NOMEM" ELSE OK

\* OverlapX( that, this ): "this" is the first Region of astOverlap.  A
\* fault makes the named Equal call fail (it then returns 0 with the status
\* set).  Gives the result, the two Regions and the status after the call.
OverlapX(that, this, st, fault) ==
  IF st # OK THEN [result |-> 0, this |-> this, that |-> that, status |-> st]
  ELSE IF Equal(this, that)
  THEN [result |-> 5, this |-> this, that |-> that, status |-> st]
  ELSE OverlapNegated(that, Negate(this, OK), EqualStatus(fault),
                      Negate(Negate(this, OK), EqualStatus(fault)))

\* astOverlap( this, that ): OverlapX with the arguments swapped.
Overlap(this, that, st, fault) ==
  IF st # OK THEN [result |-> 0, this |-> this, that |-> that, status |-> st]
  ELSE OverlapX(that, this, st, fault)

(***************************************************************************)
(* The state machine: a caller holding two Regions and calling the public  *)
(* functions on them.                                                      *)
(***************************************************************************)
MapInputs == { [shift |-> 1, fwd |-> TRUE,  inv |-> TRUE],
               [shift |-> 1, fwd |-> TRUE,  inv |-> FALSE],
               [shift |-> 1, fwd |-> FALSE, inv |-> TRUE] }

\* The Frame a Region is mapped into.
MapFrames == {"G"}

\* Positions at which membership of a Region is sampled.
Samples == (0 - 1)..(MaxCoord + 1)

\* The positions of the current Frame that are inside the Region.
Members(this) == { p \in Samples : RegionTransform(this, <<p>>)[1] # AST__BAD }

\* The record of a call: what was called with what, the status it was
\* entered with, what it returned and, for astNegate, the Negated value and
\* the members of the Region before the call.  Of a call entered with the
\* status set, which does nothing, only the function and the status are kept.
NoCall ==
  [op |-> "Init", a |-> 0, b |-> 0, fault |-> "none", pre |-> OK, result |-> 0,
   region |-> NullRegion, map |-> UnitMap, frame |-> "", neg |-> 0, member |-> {},
   inside |-> 0, ndim |-> 0, val |-> 0, data |-> <<>>,
   refs |-> <<>>, kept |-> <<>>]

Record(call) ==
  IF status = OK THEN call
  ELSE [NoCall EXCEPT !.op = call.op, !.pre = status]

\* The caller holds no PointSet and no Region besides reg[1] and reg[2].
\* pset is the PointSet it holds and owners the Regions whose "points" is
\* that very PointSet; region is a Region it got from a call on reg[from]:
\* "copy" for an object of its own, "unc" for the uncertainty Region stored
\* in reg[from] itself; shares names the components of a copy that are the
\* components of reg[from] themselves and by the function that returned it.
NoHeld ==
  [pset |-> <<>>, owners |-> {}, region |-> NullRegion, from |-> 0,
   is |-> "none", shares |-> {}, by |-> ""]

\* The caller has no data array.
NoGrid == [lbnd |-> 0, ubnd |-> 0, data |-> <<>>]

Init ==
  /\ \E s1 \in Shapes1, s2 \in Shapes, c \in Constructions :
        /\ ValidShape(s1)
        /\ ValidShape(s2)
        /\ reg = [r \in RegIds |->
                    IF r = 1 THEN astInitRegion(s1[1], "F", s1[2], NullRegion)
                    ELSE [astInitRegion(s2[1], c[1], s2[2], UncBox(c[2], c[1]))
                            EXCEPT !.closed = c[3]]]
  /\ status = OK
  /\ last = NoCall
  /\ held = NoHeld
  /\ grid = NoGrid

\* astNegate( reg[r] )
NegateAct(r) ==
  /\ reg' = [reg EXCEPT ![r] = Negate(reg[r], status)]
  /\ last' = Record([NoCall EXCEPT !.op = "Negate", !.a = r,
                                   !.neg = GetNegated(reg[r]),
                                   !.member = Members(reg[r])])
  /\ UNCHANGED <<status, held, grid>>

\* result = astOverlap( reg[a], reg[b] )
OverlapAct(a, b, fault) ==
  \E o \in {Overlap(reg[a], reg[b], status, fault)} :
     /\ reg' = IF a = b THEN [reg EXCEPT ![a] = o.this]
               ELSE [reg EXCEPT ![a] = o.this, ![b] = o.that]
     /\ status' = o.status
     /\ last' = Record([NoCall EXCEPT !.op = "Overlap", !.a = a, !.b = b,
                                      !.fault = fault, !.result = o.result])
     /\ UNCHANGED <<held, grid>>

\* region = astMapRegion( reg[r], map, frame )
MapRegionAct(r, map, frame) ==
  \E m \in {MapRegion(reg[r], map, frame, status)} :
      /\ status' = m.status
      /\ reg' = [reg EXCEPT ![r] = m.this]
      /\ last' = Record([NoCall EXCEPT !.op = "MapRegion", !.a = r, !.map = map,
                                       !.frame = frame, !.region = m.region])
      /\ UNCHANGED <<held, grid>>

\* astClearStatus
ClearStatusAct ==
  /\ status # OK
  /\ status' = OK
  /\ last' = [NoCall EXCEPT !.op = "ClearStatus"]
  /\ UNCHANGED <<reg, held, grid>>

Next ==
  \/ \E r \in RegIds : NegateAct(r)
  \/ \E a \in RegIds, b \in RegIds, f \in Faults : OverlapAct(a, b, f)
  \/ \E r \in RegIds, m \in MapInputs, f \in MapFrames : MapRegionAct(r, m, f)
  \/ ClearStatusAct

Spec == Init /\ [][Next]_vars

(***************************************************************************)
(* Properties.                                                             *)
(***************************************************************************)
\* The most recent call was astOverlap, entered with the status clear and
\* with no collaborator failing.
OverlapDone == last.op = "Overlap" /\ last.pre = OK /\ last.fault = "none"

\* C1: Overlap(A,B) and Overlap(B,A) are related by exchanging codes 2 and
\* 3 and are equal for every other code: whenever astOverlap(B,A) has just
\* returned without error and astOverlap(A,B) is called next (nothing
\* having changed the Regions in between), the second result is the first
\* one with 2 and 3 exchanged.
C1_OverlapSwapSymmetry ==
  [][ ( /\ OverlapDone /\ status = OK
        /\ OverlapDone' /\ status' = OK
        /\ last'.a = last.b /\ last'.b = last.a )
      => last'.result = Swap23(last.result) ]_vars

\* The step is a call astOverlap( reg[a], reg[b] ) entered with the status
\* clear and with no collaborator failing.
OverlapStep(a, b) ==
  /\ status = OK
  /\ last'.op = "Overlap" /\ last'.a = a /\ last'.b = b
  /\ last'.pre = OK /\ last'.fault = "none"
  /\ <<reg, last>> # <<reg', last'>>

\* n is a copy of r with the Negated attribute toggled.
NegatedCopy(r, n) ==
  /\ n = [r EXCEPT !.negated = n.negated]
  /\ GetNegated(n) # GetNegated(r)

\* C2: Overlap(R,R) returns 5 and Overlap(R,N) returns 6, N being a copy of
\* R with its Negated attribute toggled, and no error is raised, also when R
\* has no finite boundary.
C2_SelfAndNegatedCopy ==
  [][ \A a \in RegIds, b \in RegIds :
        OverlapStep(a, b) =>
          /\ (a = b => last'.result = 5 /\ status' = OK)
          /\ (NegatedCopy(reg[a], reg[b]) => last'.result = 6 /\ status' = OK) ]_vars

\* A Region without a finite boundary has been compared with its negated
\* copy.
C2_Witness ==
  /\ OverlapDone /\ last.a # last.b /\ last.result = 6 /\ status = OK
  /\ reg[last.a].class = "Interval"
  /\ GetNegated(reg[last.a]) # GetNegated(reg[last.b])

\* The boundary of the Region in its current Frame.
CurBoundary(this) == { TranPoint(RegMapping(this), p, TRUE) : p \in Boundary(this) }

CurFrame(this) == astGetFrame(this.frameset, this.frameset.current)

\* No boundary point of one Region is within the joint uncertainty of a
\* boundary point of the other.
BoundariesApart(r1, r2) ==
  \A p \in CurBoundary(r1), q \in CurBoundary(r2) :
     Dist(p, q) > HalfWidth(r1.unc) + HalfWidth(r2.unc)

\* Un-negated bounded Regions in a common Frame, r1 strictly inside r2.
StrictlyInside(r1, r2) ==
  /\ r1.class = "Box" /\ r2.class = "Box"
  /\ GetNegated(r1) = 0 /\ GetNegated(r2) = 0
  /\ CurFrame(r1) = CurFrame(r2)
  /\ \A p \in CurBoundary(r1) :
        /\ \E q \in CurBoundary(r2) : q < p
        /\ \E q \in CurBoundary(r2) : p < q
  /\ BoundariesApart(r1, r2)

\* C3: for two un-negated bounded Regions in a common Frame, A strictly
\* inside B with boundaries that do not meet within the uncertainties,
\* Overlap(A,B) returns 2 and Overlap(B,A) returns 3.
C3_StrictlyInside ==
  [][ \A a \in RegIds, b \in RegIds :
        OverlapStep(a, b) =>
          /\ (StrictlyInside(reg[a], reg[b]) => last'.result = 2)
          /\ (StrictlyInside(reg[b], reg[a]) => last'.result = 3) ]_vars

\* The inner Region has been given first.
C3_Witness ==
  /\ OverlapDone /\ status = OK /\ last.result = 2
  /\ StrictlyInside(reg[last.a], reg[last.b])

\* The bounding boxes (the Negated attribute ignored) of the two Regions in
\* their common Frame do not intersect.  An Interval extends to infinity.
BoxesDisjoint(r1, r2) ==
  /\ CurFrame(r1) = CurFrame(r2)
  /\ \/ r1.class = "Box" /\ \A p \in CurBoundary(r1), q \in CurBoundary(r2) : p < q
     \/ r2.class = "Box" /\ \A p \in CurBoundary(r1), q \in CurBoundary(r2) : q < p

C5_ResultCodes ==
  last.op = "Overlap" =>
    /\ last.result \in 0..6
    /\ last.result = 0 =>
         \/ status # OK
         \/ ~Convertible(CurFrame(reg[last.a]), CurFrame(reg[last.b]))

\* Overlap has returned 0 without error, for want of a conversion.
C5_Witness ==
  /\ last.op = "Overlap" /\ last.result = 0 /\ status = OK
  /\ ~Convertible(CurFrame(reg[last.a]), CurFrame(reg[last.b]))

\* The Region is bounded neither with its Negated value nor with that value
\* toggled.
NoFiniteBoundary(this) ==
  ~astGetBounded(this, OK) /\ ~astGetBounded(Negate(this, OK), OK)

\* C6: when the two Regions are neither Equal nor Equal after negating the
\* first, and neither has a finite boundary, Overlap raises the
\* indeterminate-overlap error and returns 0.
C6_Indeterminate ==
  [][ \A a \in RegIds, b \in RegIds :
        ( /\ OverlapStep(a, b)
          /\ ~Equal(reg[a], reg[b]) /\ ~Equal(Negate(reg[a], OK), reg[b])
          /\ NoFiniteBoundary(reg[a]) /\ NoFiniteBoundary(reg[b]) )
        => last'.result = 0 /\ status' = "AST__INTER(astOverlap)" ]_vars

\* Two different Regions without finite boundary have been compared.
C6_Witness ==
  /\ OverlapDone /\ last.a # last.b
  /\ status = "AST__INTER(astOverlap)" /\ last.result = 0
  /\ NoFiniteBoundary(reg[last.a]) /\ NoFiniteBoundary(reg[last.b])

\* C7: on every return path of Overlap(A,B), a return caused by an error
\* raised while a Region is temporarily negated included, the Negated
\* attribute of A and of B has the value it had before the call.
C7_NegatedRestored ==
  [][ last'.op = "Overlap" =>
        \A r \in RegIds : GetNegated(reg'[r]) = GetNegated(reg[r]) ]_vars

\* C8: Negate changes only the Negated attribute of the Region (0 becomes 1,
\* 1 becomes 0); the points, the FrameSet, the uncertainty Region, the Closed
\* attribute and the cached mesh are unchanged.
C8_NegateOnlyNegated ==
  [][ \A r \in RegIds :
        (status = OK /\ last'.op = "Negate" /\ last'.a = r) =>
          /\ reg'[r] = [reg[r] EXCEPT !.negated = 1 - GetNegated(reg[r])]
          /\ \A q \in RegIds \ {r} : reg'[q] = reg[q] ]_vars

\* A Region with a cached mesh, an uncertainty Region and Closed set has
\* been negated.
C8_Witness ==
  /\ last.op = "Negate" /\ last.pre = OK
  /\ reg[last.a].basemesh # NullMesh
  /\ TestUnc(reg[last.a])
  /\ reg[last.a].closed = 0
  /\ GetNegated(reg[last.a]) = 1

\* C9: applying Negate twice gives a Region with the same members as before,
\* and GetNegated returns the original value.
C9_NegateTwice ==
  [][ \A r \in RegIds :
        ( /\ last.op = "Negate" /\ last.a = r /\ last.pre = OK
          /\ status = OK /\ last'.op = "Negate" /\ last'.a = r )
        => /\ GetNegated(reg'[r]) = last.neg
           /\ Members(reg'[r]) = last.member ]_vars

\* A Region has been negated twice in succession; the first call changed
\* its members.
C9_Witness ==
  /\ last.op = "Negate" /\ last.pre = OK
  /\ last.neg = 1 /\ GetNegated(reg[last.a]) = 0
  /\ Members(reg[last.a]) # last.member
  /\ Members(reg[last.a]) # {}

\* C10: MapRegion called with a Mapping that lacks a forward or an inverse
\* transformation raises the missing-transform-direction error and returns
\* no Region.
C10_MapRegionNeedsBothDirections ==
  (last.op = "MapRegion" /\ last.pre = OK /\ ~(last.map.fwd /\ last.map.inv))
    => status = "AST__NODEF" /\ last.region = NullRegion

\* MapRegion has been given a Mapping without forward transformation.
C10_Witness ==
  /\ last.op = "MapRegion" /\ last.pre = OK /\ ~last.map.fwd
  /\ last.region = NullRegion

HeldPsets == { <<0, MaxCoord - 1>>, <<1, MaxCoord>> }

\* The uncertainty Regions the caller supplies: a Box, a negated Box, a Box
\* in another coordinate system and an Interval.
UncInputs ==
  { UncBox(1, "F"),
    Negate(UncBox(1, "F"), OK),
    UncBox(1, "G"),
    astInitRegion("Interval", "F", <<0>>, NullRegion) }

\* The constructor arguments a new Region keeps a pointer to (the others it
\* copies).
InitRegionClones == {"points"}

\* What astGetUnc returns: the stored uncertainty Region itself ("unc") or
\* a new Region ("copy").
GetUncIs(this, ifrm) ==
  IF ifrm = "BASE" \/ astIsAUnitMap(RegMapping(this)) THEN "unc" ELSE "copy"

\* astSetDomain on a Region: sets the Domain of the current Frame of its
\* FrameSet.
SetDomain(this, value, st) ==
  IF st # OK THEN this
  ELSE [this EXCEPT !.frameset.frm[this.frameset.current] = value]

\* The Regions after the caller has changed the Region it holds into new.
Reach(regs, h, new) ==
  IF h.is = "unc" THEN [regs EXCEPT ![h.from].unc = new]
  ELSE IF h.is = "copy" /\ h.shares # {}
  THEN [regs EXCEPT ![h.from] =
          [f \in DOMAIN regs[h.from] |->
             IF f \in h.shares THEN new[f] ELSE regs[h.from][f]]]
  ELSE regs

\* The objects held once reg[r] has dropped its uncertainty Region.
Detach(h, r, st) ==
  IF st = OK /\ h.is = "unc" /\ h.from = r
  THEN [h EXCEPT !.is = "copy", !.shares = {}] ELSE h

\* The objects held once a function called on reg[r] has returned region.
Hold(h, region, r, is, shares, by) ==
  IF region = NullRegion THEN h
  ELSE [h EXCEPT !.region = region, !.from = r, !.is = is, !.shares = shares,
                 !.by = by]

\* The Region built from the PointSet the caller holds.
HeldIds == {1}

InitHeld ==
  /\ \E ps \in HeldPsets, hw \in {0, 1} :
        /\ reg = [r \in RegIds |->
                    IF r \in HeldIds
                    THEN astInitRegion("Box", "F", ps, UncBox(hw, "F"))
                    ELSE astInitRegion("Box", "F", <<0, MaxCoord>>, NullRegion)]
        /\ held = [NoHeld EXCEPT
                     !.pset = ps,
                     !.owners = IF "points" \in InitRegionClones THEN HeldIds ELSE {}]
  /\ status = OK
  /\ last = NoCall
  /\ grid = NoGrid

\* The caller writes other coordinates into its PointSet.
SetPointsAct(ps) ==
  /\ ps # held.pset
  /\ held' = [held EXCEPT !.pset = ps]
  /\ reg' = [r \in RegIds |->
               IF r \in held.owners THEN [reg[r] EXCEPT !.points = ps] ELSE reg[r]]
  /\ last' = [NoCall EXCEPT !.op = "SetPoints", !.pre = status]
  /\ UNCHANGED <<status, grid>>

\* astSetUnc( reg[r], unc )
SetUncAct(r, unc) ==
  \E o \in {SetUnc(reg[r], unc, status)} :
     /\ reg' = [reg EXCEPT ![r] = o.reg]
     /\ status' = o.status
     /\ held' = Detach(held, r, status)
     /\ last' = Record([NoCall EXCEPT !.op = "SetUnc", !.a = r, !.region = unc,
                                      !.result = IF TestUnc(reg[r]) THEN 1 ELSE 0])
     /\ grid' = grid

\* astClearUnc( reg[r] )
ClearUncAct(r) ==
  /\ reg' = [reg EXCEPT ![r] = ClearUnc(reg[r], status)]
  /\ held' = Detach(held, r, status)
  /\ last' = Record([NoCall EXCEPT !.op = "ClearUnc", !.a = r])
  /\ UNCHANGED <<status, grid>>

\* unc = astGetUnc( reg[r], ifrm )
GetUncAct(r, ifrm) ==
  \E o \in {GetUnc(reg[r], ifrm, status)} :
     /\ reg' = [reg EXCEPT ![r] = o.reg]
     /\ held' = Hold(held, o.unc, r, GetUncIs(reg[r], ifrm), {}, "GetUnc")
     /\ last' = Record([NoCall EXCEPT !.op = "GetUnc", !.a = r])
     /\ UNCHANGED <<status, grid>>

\* copy = astCopy( reg[r] )
CopyAct(r) ==
  /\ held' = Hold(held, IF status = OK THEN Copy(reg[r]) ELSE NullRegion,
                  r, "copy", CopyShares, "Copy")
  /\ last' = Record([NoCall EXCEPT !.op = "Copy", !.a = r])
  /\ UNCHANGED <<reg, status, grid>>

\* region = astMapRegion( reg[r], map, frame ), the caller keeping the result
MapRegionKeepAct(r, map, frame) ==
  \E m \in {MapRegion(reg[r], map, frame, status)} :
      /\ reg' = [reg EXCEPT ![r] = m.this]
      /\ status' = m.status
      /\ held' = Hold(held, m.region, r, "copy", CopyShares, "MapRegion")
      /\ last' = Record([NoCall EXCEPT !.op = "MapRegionKeep", !.a = r, !.map = map])
      /\ grid' = grid

\* astNegate( region ) on the Region the caller holds
NegateHeldAct ==
  /\ held.region # NullRegion
  /\ \E new \in {Negate(held.region, status)} :
        /\ held' = [held EXCEPT !.region = new]
        /\ reg' = Reach(reg, held, new)
  /\ last' = Record([NoCall EXCEPT !.op = "NegateHeld"])
  /\ UNCHANGED <<status, grid>>

\* astSetDomain( region, domain ) on the Region the caller holds
SetDomainHeldAct(domain) ==
  /\ held.region # NullRegion
  /\ \E new \in {SetDomain(held.region, domain, status)} :
        /\ held' = [held EXCEPT !.region = new]
        /\ reg' = Reach(reg, held, new)
  /\ last' = Record([NoCall EXCEPT !.op = "SetDomainHeld", !.frame = domain])
  /\ UNCHANGED <<status, grid>>

NextHeld ==
  \/ \E ps \in HeldPsets : SetPointsAct(ps)
  \/ \E r \in HeldIds, u \in UncInputs : SetUncAct(r, u)
  \/ \E r \in HeldIds : ClearUncAct(r)
  \/ \E r \in HeldIds, ifrm \in {"BASE", "CURRENT"} : GetUncAct(r, ifrm)
  \/ NegateHeldAct
  \/ \E d \in Frames : SetDomainHeldAct(d)
  \/ ClearStatusAct

SpecHeld == InitHeld /\ [][NextHeld]_vars

(***************************************************************************)
(* A third state machine: a caller that copies and maps its Regions and    *)
(* changes the Regions it gets.                                            *)
(***************************************************************************)
InitCopy ==
  /\ \E s1 \in Shapes1, hw \in {0, 1} :
        /\ ValidShape(s1)
        /\ reg = [r \in RegIds |->
                    IF r = 1 THEN astInitRegion(s1[1], "F", s1[2], NullRegion)
                    ELSE astInitRegion("Box", "F", <<1, MaxCoord>>, UncBox(hw, "F"))]
  /\ status = OK
  /\ last = NoCall
  /\ held = NoHeld
  /\ grid = NoGrid

NextCopy ==
  \/ \E r \in RegIds : CopyAct(r)
  \/ \E r \in RegIds, m \in MapInputs, f \in MapFrames : MapRegionKeepAct(r, m, f)
  \/ \E r \in RegIds : NegateAct(r)
  \/ NegateHeldAct
  \/ \E d \in Frames : SetDomainHeldAct(d)
  \/ ClearStatusAct

SpecCopy == InitCopy /\ [][NextCopy]_vars

\* C11: MapRegion never modifies the Region supplied, whether it succeeds
\* or fails, and no change made afterwards to the Region it returned (its
\* Negated attribute, the Domain of its current Frame) changes the Region
\* supplied: across such a step every Region of the caller is as before.
C11_MapRegionLeavesSupplied ==
  [][ ( \/ last'.op = "MapRegionKeep"
        \/ /\ last'.op \in {"NegateHeld", "SetDomainHeld"}
           /\ held.by = "MapRegion" )
      => reg' = reg ]_vars

\* The Domain of the current Frame of a Region returned by MapRegion has
\* been changed.
C11_Witness ==
  /\ last.op = "SetDomainHeld" /\ last.pre = OK
  /\ held.by = "MapRegion"
  /\ CurFrame(held.region) = "F"
  /\ CurFrame(reg[held.from]) = "F"

\* C18: SetUnc given an uncertainty Region that is not a Box, a Circle or
\* an Ellipse reports the bad-uncertainty-shape error and leaves the Region
\* without an uncertainty Region supplied by the user: TestUnc is false.
C18_UnsupportedUncShape ==
  ( /\ last.op = "SetUnc" /\ last.pre = OK
    /\ last.region # NullRegion
    /\ last.region.class \notin UncClasses )
    => /\ status = "AST__BADIN"
       /\ ~TestUnc(reg[last.a])

\* SetUnc has been given an Interval for a Region that had an uncertainty
\* Region supplied by the user.
C18_Witness ==
  /\ last.op = "SetUnc" /\ last.pre = OK
  /\ last.region.class = "Interval"
  /\ last.result = 1
  /\ status = "AST__BADIN"

\* C19: the uncertainty Region stored in a Region, if there is one, is
\* bounded and its current Frame is the base Frame of the Region it belongs
\* to.
C19_UncBoundedInBaseFrame ==
  \A r \in RegIds :
     reg[r].unc # NullRegion
       => /\ astGetBounded(reg[r].unc, OK)
          /\ CurFrame(reg[r].unc) = astGetFrame(reg[r].frameset, reg[r].frameset.base)

\* C20: a Region shares no object with its caller: when the caller changes
\* the PointSet it passed to the constructor, or a Region it got from a
\* call, no Region changes.
C20_NothingShared ==
  [][ last'.op \in {"SetPoints", "NegateHeld", "SetDomainHeld"} => reg' = reg ]_vars

(***************************************************************************)
(* astMask<X>: a data grid on one axis, pixel i of the array having its    *)
(* centre at grid coordinate lbnd + i - 1.                                 *)
(***************************************************************************)
\* No Mapping is supplied (a NULL pointer).
NoMap == [shift |-> 0, fwd |-> FALSE, inv |-> FALSE, nin |-> 0, nout |-> 0]

astGetNaxes(this) == GetNaxes(this)

MaxOf(aa, bb) == IF aa > bb THEN aa ELSE bb

MinOf(aa, bb) == IF aa < bb THEN aa ELSE bb

\* (int)( x + 0.5 ) for a whole number x: the conversion truncates towards
\* zero.
IntCast(x) == IF x >= 0 THEN x ELSE x + 1

\* RegCurBox: the bounding box of the Region in its current Frame, the
\* Negated attribute being ignored.
RegCurBox(this) == astTransform(RegMapping(this), this.points, TRUE)

\* astResample<X> with nearest neighbour interpolation and this as the
\* Mapping: every pixel of the output region lbndg..ubndg whose centre this
\* transforms into a bad position gets badval and is counted, every other
\* one gets the value of the input pixel at its centre.  An output region
\* with lbndg > ubndg is an error, as is a failure of a collaborator; then
\* nothing is written.
Resample(this, lbnd, in, badval, lbndg, ubndg, out, fault) ==
  IF fault = "Resample" THEN [count |-> 0, out |-> out, status |-> "AST__NOMEM"]
  ELSE IF lbndg > ubndg THEN [count |-> 0, out |-> out, status |-> "AST__GBDIN"]
  ELSE [count  |-> Cardinality({ x \in lbndg..ubndg :
                                   RegionTransform(this, <<x>>)[1] = AST__BAD }),
        out    |-> [i \in 1..Len(out) |->
                      IF lbnd + i - 1 < lbndg \/ lbnd + i - 1 > ubndg THEN out[i]
                      ELSE IF RegionTransform(this, <<lbnd + i - 1>>)[1] = AST__BAD
                      THEN badval ELSE in[i]],
        status |-> OK]

\* Variant: the count is returned whatever the status is.
MaskEnd_CountOnError(rs, used1, inside, prefilled) ==
  [result |-> prefilled + rs.count,
   data   |-> rs.out,
   status |-> rs.status,
   used   |-> IF inside # 0 THEN Negate(used1, rs.status) ELSE used1]

\* What Mask returns once astResample has returned rs: the count, the data
\* array, the status and the Region used, negated back if inside is set.
MaskEnd(rs, used1, inside, prefilled) ==
  [result |-> IF rs.status # OK THEN 0 ELSE prefilled + rs.count,
   data   |-> rs.out,
   status |-> rs.status,
   used   |-> IF inside # 0 THEN Negate(used1, rs.status) ELSE used1]

\* Mask from the point where the bounding box lbndg..ubndg is known: the
\* pixels outside it are set to val if they are on the side to be masked
\* and astResample does the rest on used1, which is the Region used,
\* negated if inside is set.
MaskRun(used, used1, inside, lbnd, ubnd, in, val, lbndg, ubndg, fault) ==
  IF (inside # 0) = (GetNegated(used) # 0)
  THEN MaskEnd(Resample(used1, lbnd, in, val, lbndg, ubndg,
                        [i \in 1..(ubnd - lbnd + 1) |-> val], fault),
               used1, inside, (ubnd - lbnd + 1) - (ubndg - lbndg + 1))
  ELSE MaskEnd(Resample(used1, lbnd, in, val, lbndg, ubndg, in, fault),
               used1, inside, 0)

\* Variant: the number of mapping outputs is not compared with ndim.
MaskStatus_NoOutputCheck(this, map, ndim, st) ==
  IF map # NoMap
  THEN IF astGetNaxes(this) # map.nin THEN "AST__NGDIN"
       ELSE st
  ELSE IF ndim # astGetNaxes(this) \/ ndim < 1 THEN "AST__NGDIN"
  ELSE st

\* The checks Mask makes of its arguments before it looks at the data.
MaskStatus(this, map, ndim, st) ==
  IF map # NoMap
  THEN IF astGetNaxes(this) # map.nin THEN "AST__NGDIN"
       ELSE IF ndim # map.nout THEN "AST__NGDIN"
       ELSE st
  ELSE IF ndim # astGetNaxes(this) \/ ndim < 1 THEN "AST__NGDIN"
  ELSE st

\* The Region Mask works on (NullRegion after an error), the status, the
\* supplied Region, and whether the Region worked on is the supplied Region
\* itself, which it is when there is no Mapping.
MaskRegion(this, map, ndim, st1) ==
  IF map # NoMap
  THEN [alias |-> FALSE] @@ MapRegion(this, map, "GRID", st1)
  ELSE [alias |-> st1 = OK, region |-> IF st1 # OK THEN NullRegion ELSE this,
        status |-> st1, this |-> this]

\* What Mask returns: after the Region used has been annulled the supplied
\* Region is as the Region used was left if that was the supplied Region.
MaskReturn(mr, m) ==
  [result |-> m.result, data |-> m.data, status |-> m.status,
   this   |-> IF mr.alias THEN m.used ELSE mr.this]

\* Mask once the Region to use is known: the check of the bounds, then the
\* bounding box of the Region, widened by two pixels and cut to the grid.
MaskUsed(mr, inside, lbnd, ubnd, in, val, fault) ==
  IF mr.status # OK
  THEN [result |-> 0, data |-> in, status |-> mr.status, this |-> mr.this]
  ELSE IF lbnd > ubnd
  THEN [result |-> 0, data |-> in, status |-> "AST__GBDIN", this |-> mr.this]
  ELSE MaskReturn(mr,
         MaskRun(mr.region, IF inside # 0 THEN Negate(mr.region, OK) ELSE mr.region,
                 inside, lbnd, ubnd, in, val,
                 MaxOf(lbnd, IntCast(RegCurBox(mr.region)[1]) - 2),
                 MinOf(ubnd, IntCast(RegCurBox(mr.region)[2]) + 2), fault))

\* Variant: the count returned is the number of pixels whose value changed.
Mask_CountsChanges(this, map, inside, ndim, lbnd, ubnd, in, val, st, fault) ==
  IF st # OK THEN [result |-> 0, data |-> in, status |-> st, this |-> this]
  ELSE LET m == MaskUsed(MaskRegion(this, map, ndim, MaskStatus(this, map, ndim, st)),
                         inside, lbnd, ubnd, in, val, fault)
       IN  [m EXCEPT !.result = Cardinality({ i \in 1..Len(in) : m.data[i] # in[i] })]

\* astMask<X>: the count returned, the data array, the status and the
\* supplied Region after the call.
Mask(this, map, inside, ndim, lbnd, ubnd, in, val, st, fault) ==
  IF st # OK THEN [result |-> 0, data |-> in, status |-> st, this |-> this]
  ELSE MaskUsed(MaskRegion(this, map, ndim, MaskStatus(this, map, ndim, st)),
                inside, lbnd, ubnd, in, val, fault)

(***************************************************************************)
(* A fourth state machine: a caller masking a data array with its Region.  *)
(***************************************************************************)
\* The Mapping and the number of grid axes given to astMask: no Mapping or
\* a shift by one pixel, and the same with a wrong number of axes.
MaskArgs ==
  { <<NoMap, 1>>,
    <<[shift |-> 1, fwd |-> TRUE, inv |-> TRUE, nin |-> 1, nout |-> 1], 1>>,
    <<NoMap, 2>>,
    <<[shift |-> 1, fwd |-> TRUE, inv |-> TRUE, nin |-> 2, nout |-> 1], 1>>,
    <<[shift |-> 1, fwd |-> TRUE, inv |-> TRUE, nin |-> 1, nout |-> 2], 1>> }

MaskFaults == {"none", "Resample"}

\* The value astMask is asked to store.
MaskVal == 2

\* The grids: one covering every Box, one reaching the lower Boxes only,
\* one beyond every Box and one with its bounds the wrong way round.
GridBounds ==
  { <<0, MaxCoord>>, <<MaxCoord, MaxCoord + 3>>,
    <<MaxCoord + 3, MaxCoord + 4>>, <<1, 0>> }

\* The Region the data are masked with.
MaskIds == {1}

\* The pixels of the grid whose centres are inside the Region, map taking
\* the current Frame of the Region into grid coordinates.
MaskMembers(this, map, lbnd, ubnd) ==
  { x \in lbnd..ubnd : RegionTransform(this, <<TranPoint(map, x, FALSE)>>)[1] # AST__BAD }

InitMask ==
  /\ \E s1 \in Shapes, c \in {0 - INT_MAX, 0}, g \in GridBounds :
        /\ s1[1] = "Box"
        /\ ValidShape(s1)
        /\ reg = [r \in RegIds |->
                    IF r \in MaskIds
                    THEN [astInitRegion(s1[1], "F", s1[2], NullRegion) EXCEPT !.closed = c]
                    ELSE astInitRegion("Box", "F", <<0, MaxCoord>>, NullRegion)]
        /\ grid = [lbnd |-> g[1], ubnd |-> g[2],
                   data |-> [i \in 1..(g[2] - g[1] + 1) |-> i % 2]]
  /\ status = OK
  /\ last = NoCall
  /\ held = NoHeld

\* result = astMask<X>( reg[r], map, inside, ndim, lbnd, ubnd, in, val )
MaskAct(r, map, ndim, inside, fault) ==
  \E m \in {Mask(reg[r], map, inside, ndim, grid.lbnd, grid.ubnd, grid.data,
                 MaskVal, status, fault)} :
     /\ reg' = [reg EXCEPT ![r] = m.this]
     /\ grid' = [grid EXCEPT !.data = m.data]
     /\ status' = m.status
     /\ last' = Record([NoCall EXCEPT
                          !.op = "Mask", !.a = r, !.map = map, !.ndim = ndim,
                          !.inside = inside, !.fault = fault, !.val = MaskVal,
                          !.result = m.result, !.neg = GetNegated(reg[r]),
                          !.data = grid.data,
                          !.member = MaskMembers(reg[r], map, grid.lbnd, grid.ubnd)])
     /\ held' = held

NextMask ==
  \/ \E r \in MaskIds, a \in MaskArgs, inside \in {0, 1}, f \in MaskFaults :
        MaskAct(r, a[1], a[2], inside, f)
  \/ \E r \in MaskIds : NegateAct(r)
  \/ ClearStatusAct

SpecMask == InitMask /\ [][NextMask]_vars

\* The most recent call was astMask, entered with the status clear, and it
\* returned with the status clear.
MaskDone == last.op = "Mask" /\ last.pre = OK /\ status = OK

\* The grid coordinate of the centre of pixel i of the data array.
Centre(i) == grid.lbnd + i - 1

\* The pixels that are to get the value: those with their centres inside
\* the Region if inside is set, the others if it is not.
MaskTarget ==
  { i \in 1..Len(grid.data) : (Centre(i) \in last.member) = (last.inside # 0) }

\* C13: on success Mask has stored val in exactly the pixels whose centres
\* are inside the Region (inside set) or not inside it (inside clear), as
\* Negated and Closed say; every other pixel has the value it had, and the
\* count returned is the number of pixels that got val.
C13_MaskSetsExactlyTheRegion ==
  MaskDone
    => /\ \A i \in 1..Len(grid.data) :
             grid.data[i] = IF i \in MaskTarget THEN last.val ELSE last.data[i]
       /\ last.result = Cardinality(MaskTarget)

\* The arguments of two calls of astMask are the same.
SameMask(c1, c2) ==
  /\ c1.a = c2.a /\ c1.map = c2.map /\ c1.ndim = c2.ndim
  /\ c1.inside = c2.inside /\ c1.val = c2.val /\ c1.fault = c2.fault

\* C14 as stated: a second Mask with inside set and the same Region, grid
\* and value, right after the first, leaves the data as the first left them
\* and returns 0.
C14_SecondMaskReturnsZero ==
  [][ ( /\ MaskDone /\ last.inside # 0
        /\ last'.op = "Mask" /\ SameMask(last, last') )
      => /\ grid'.data = grid.data
         /\ last'.result = 0 ]_vars

\* C14: a second Mask with inside set and the same Region, grid and value,
\* right after the first, leaves the data as the first left them and
\* returns the count the first returned: the number of pixels that were
\* given the value, whether they had it already or not.
C14_SecondMaskSameCount ==
  [][ ( /\ MaskDone /\ last.inside # 0
        /\ last'.op = "Mask" /\ SameMask(last, last') )
      => /\ grid'.data = grid.data
         /\ last'.result = last.result ]_vars

\* Mask with inside set has stored the value in pixels that all had it
\* already.
C14_Witness ==
  /\ MaskDone /\ last.inside # 0
  /\ last.result > 0
  /\ last.data = grid.data

\* The number of pixels in the bounding box of the Region in grid
\* coordinates, widened by two pixels and cut to the grid.
BoxCells ==
  MaxOf(0, MinOf(grid.ubnd, IntCast(TranPoint(last.map, RegCurBox(reg[last.a])[2], TRUE)) + 2)
           - MaxOf(grid.lbnd, IntCast(TranPoint(last.map, RegCurBox(reg[last.a])[1], TRUE)) - 2)
           + 1)

\* C15 as stated: the count returned by Mask is at most the number of
\* pixels of the grid and, with inside set, at most the number of pixels of
\* the widened bounding box, whether the Region is negated or not.
C15_CountBounds_Original ==
  (last.op = "Mask" /\ last.pre = OK)
    => /\ last.result <= MaxOf(0, grid.ubnd - grid.lbnd + 1)
       /\ last.inside # 0 => last.result <= BoxCells

\* C15: the count returned by Mask is at most the number of pixels of the
\* grid and, with inside set and a Region that is not negated, at most the
\* number of pixels of the widened bounding box, wherever the box lies.
C15_CountBounds ==
  (last.op = "Mask" /\ last.pre = OK)
    => /\ last.result <= MaxOf(0, grid.ubnd - grid.lbnd + 1)
       /\ (last.inside # 0 /\ last.neg = 0) => last.result <= BoxCells

\* Mask with inside set and a Region that is not negated has filled a
\* bounding box that is partly off the grid.
C15_Witness ==
  /\ MaskDone /\ last.inside # 0 /\ last.neg = 0
  /\ last.result > 0
  /\ BoxCells < Len(grid.data)
  /\ IntCast(TranPoint(last.map, RegCurBox(reg[last.a])[1], TRUE)) - 2 < grid.lbnd

\* The arguments of the most recent Mask are among those it rejects.
MaskBadArgs ==
  \/ last.map # NoMap /\ last.map.nin # astGetNaxes(reg[last.a])
  \/ last.map # NoMap /\ last.map.nout # last.ndim
  \/ last.map = NoMap /\ last.ndim # astGetNaxes(reg[last.a])
  \/ grid.lbnd > grid.ubnd

\* C16: Mask given a Mapping with a number of inputs other than the number
\* of axes of the Region, or a number of outputs other than ndim, or no
\* Mapping and ndim other than the number of axes of the Region, or a lower
\* bound above the upper bound, reports an error, returns 0 and changes no
\* pixel.
C16_MaskRejectsBadArgs ==
  (last.op = "Mask" /\ last.pre = OK /\ MaskBadArgs)
    => /\ status # OK
       /\ last.result = 0
       /\ grid.data = last.data

\* Mask has rejected a Mapping with two outputs for a grid with one axis.
C16_Witness ==
  /\ last.op = "Mask" /\ last.pre = OK
  /\ last.map # NoMap /\ last.map.nout # last.ndim
  /\ status = "AST__NGDIN"
  /\ Len(grid.data) > 0

\* C17: after Mask has returned, with or without an error, the Negated
\* attribute of the supplied Region has the value it had before the call.
C17_MaskRestoresNegated ==
  (last.op = "Mask" /\ last.pre = OK)
    => GetNegated(reg[last.a]) = last.neg

(***************************************************************************)
(* Construction with its checks, the MeshSize attribute and astRegOverlay. *)
(***************************************************************************)
\* No reference to the Frame, the PointSet and the uncertainty Region of
\* the caller.
NoRefs == [frame |-> 0, pset |-> 0, unc |-> 0]

\* Variant: the PointSet is taken as it is.
InitStatus_NoCheck(frame, ncoord, st) == st

\* The status astInitRegion_ has after its check of the PointSet: ncoord is
\* the number of coordinates of each of its points (0: no PointSet given).
InitStatus(frame, ncoord, st) ==
  IF ncoord # 0 /\ ncoord # FrameNaxes(frame) THEN "AST__NCPIN" ELSE st

\* The references astInitRegion_ takes to the objects of the caller and
\* does not give up before it returns: the clone of the Frame (f0) and, in
\* a Region that is returned, the clone of the PointSet.
InitRefs(ncoord, st1) ==
  [frame |-> 1, pset |-> IF ncoord # 0 /\ st1 = OK THEN 1 ELSE 0, unc |-> 0]

\* The references to the objects of the caller that the Region returned
\* holds: the PointSet (the Frame and the uncertainty Region are copied).
InitKept(ncoord, st1) ==
  [frame |-> 0, pset |-> IF ncoord # 0 /\ st1 = OK THEN 1 ELSE 0, unc |-> 0]

\* astInitRegion_: the Region returned (NullRegion for a NULL pointer), the
\* status, the change of the reference counts of the objects supplied and
\* the references to them that the new Region holds.
InitRegion(name, frame, pset, ncoord, unc, st) ==
  IF st # OK
  THEN [region |-> NullRegion, status |-> st, refs |-> NoRefs, kept |-> NoRefs]
  ELSE IF InitStatus(frame, ncoord, st) # OK
  THEN [region |-> NullRegion, status |-> InitStatus(frame, ncoord, st),
        refs |-> NoRefs, kept |-> NoRefs]
  ELSE IF SetUnc(astInitRegion(name, frame, pset, NullRegion), unc, OK).status # OK
  THEN [region |-> NullRegion,
        status |-> SetUnc(astInitRegion(name, frame, pset, NullRegion), unc, OK).status,
        refs |-> InitRefs(ncoord, "AST__BADIN"), kept |-> InitKept(ncoord, "AST__BADIN")]
  ELSE [region |-> astInitRegion(name, frame, pset, unc), status |-> st,
        refs |-> InitRefs(ncoord, OK), kept |-> InitKept(ncoord, OK)]

\* astRegOverlay: copy the attributes of that to this; this loses its
\* uncertainty Region if that has none of its own (otherwise its own, a Box,
\* simplifies to itself and stays).
RegOverlay(this, that, st) ==
  IF st # OK THEN this
  ELSE IF ~TestUnc(that)
  THEN ClearUnc([this EXCEPT !.meshsize = that.meshsize, !.negated = that.negated,
                             !.closed = that.closed, !.regionfs = that.regionfs], st)
  ELSE [this EXCEPT !.meshsize = that.meshsize, !.negated = that.negated,
                    !.closed = that.closed, !.regionfs = that.regionfs]

\* The Frames Regions are made in, of one to four axes.
MeshFrames == {"F", "F2", "F3", "F4"}

\* The values MeshSize is set to.
MeshSizes == {0 - 1, 5, 6}

\* The uncertainty Regions given to the constructor: none, a Box and an
\* Interval.
MeshUncs ==
  {NullRegion, UncBox(1, "F"), astInitRegion("Interval", "F", <<0>>, NullRegion)}

\* The Region that is made anew, that has its mesh made and that takes the
\* attributes of the other.
MeshIds == {1}

InitMesh ==
  /\ \E f \in MeshFrames :
        reg = [r \in RegIds |->
                 IF r = 1 THEN astInitRegion("Box", f, <<0, MaxCoord>>, NullRegion)
                 ELSE astInitRegion("Box", "F", <<1, MaxCoord>>, NullRegion)]
  /\ status = OK
  /\ last = NoCall
  /\ held = NoHeld
  /\ grid = NoGrid

\* reg[r] = astInitRegion( ..., "Box", frame, pset, unc ), the PointSet
\* having ncoord coordinates for each point; the caller keeps the Region it
\* had if none is returned.
InitRegionAct(r, frame, ncoord, unc) ==
  \E n \in {InitRegion("Box", frame, <<0, MaxCoord>>, ncoord, unc, status)} :
     /\ reg' = IF n.region = NullRegion THEN reg ELSE [reg EXCEPT ![r] = n.region]
     /\ status' = n.status
     /\ last' = Record([NoCall EXCEPT !.op = "InitRegion", !.a = r, !.frame = frame,
                                      !.ndim = ncoord, !.region = n.region,
                                      !.refs = n.refs, !.kept = n.kept])
     /\ UNCHANGED <<held, grid>>

\* astSetMeshSize( reg[r], value )
SetMeshSizeAct(r, value) ==
  /\ reg' = [reg EXCEPT ![r] = IF status # OK THEN @ ELSE SetMeshSize(@, value)]
  /\ last' = Record([NoCall EXCEPT !.op = "SetMeshSize", !.a = r, !.val = value])
  /\ UNCHANGED <<status, held, grid>>

\* astClearMeshSize( reg[r] )
ClearMeshSizeAct(r) ==
  /\ reg' = [reg EXCEPT ![r] = IF status # OK THEN @ ELSE ClearMeshSize(@)]
  /\ last' = Record([NoCall EXCEPT !.op = "ClearMeshSize", !.a = r])
  /\ UNCHANGED <<status, held, grid>>

\* mesh = astRegMesh( reg[r] )
RegMeshAct(r) ==
  \E m \in {RegMesh(reg[r], status)} :
     /\ reg' = [reg EXCEPT ![r] = m.reg]
     /\ status' = m.status
     /\ last' = Record([NoCall EXCEPT !.op = "RegMesh", !.a = r])
     /\ UNCHANGED <<held, grid>>

\* astRegOverlay( reg[a], reg[b] )
RegOverlayAct(a, b) ==
  /\ a # b
  /\ reg' = [reg EXCEPT ![a] = RegOverlay(reg[a], reg[b], status)]
  /\ last' = Record([NoCall EXCEPT !.op = "RegOverlay", !.a = a, !.b = b])
  /\ UNCHANGED <<status, held, grid>>

NextMesh ==
  \/ \E r \in MeshIds, f \in MeshFrames, n \in 0..2, u \in MeshUncs :
        InitRegionAct(r, f, n, u)
  \/ \E r \in RegIds, v \in MeshSizes : SetMeshSizeAct(r, v)
  \/ \E r \in RegIds : ClearMeshSizeAct(r)
  \/ \E r \in MeshIds : RegMeshAct(r)
  \/ \E a \in MeshIds, b \in RegIds : RegOverlayAct(a, b)
  \/ ClearStatusAct

SpecMesh == InitMesh /\ [][NextMesh]_vars

\* C21: the cached base mesh of a Region was made for the MeshSize the
\* Region has now.
C21_CachedMeshIsCurrent ==
  \A r \in RegIds :
     reg[r].basemesh # NullMesh => reg[r].meshfor = GetMeshSize(reg[r])

\* C22: a call of the constructor changes the reference count of each
\* object supplied by the number of references to it that the new Region
\* holds, and by nothing when no Region is returned.
C22_NoReferenceLeft ==
  (last.op = "InitRegion" /\ last.pre = OK) => last.refs = last.kept

\* C24: after SetMeshSize(v) GetMeshSize returns v if v is greater than 5
\* and 5 otherwise; while MeshSize is not set GetMeshSize returns 2 for a
\* Region of one axis, 200 for two axes and 2000 for three axes or more.
C24_MeshSizeValues ==
  /\ (last.op = "SetMeshSize" /\ last.pre = OK)
       => GetMeshSize(reg[last.a]) = IF last.val > 5 THEN last.val ELSE 5
  /\ \A r \in RegIds :
        ~TestMeshSize(reg[r])
          => GetMeshSize(reg[r]) = IF GetNaxes(reg[r]) = 1 THEN 2
                                   ELSE IF GetNaxes(reg[r]) = 2 THEN 200 ELSE 2000

\* MeshSize has been set to a value below the minimum in a Region of four
\* axes while the other Region has no MeshSize.
C24_Witness ==
  /\ last.op = "SetMeshSize" /\ last.pre = OK /\ last.val < 5
  /\ GetMeshSize(reg[last.a]) = 5
  /\ \E r \in RegIds : ~TestMeshSize(reg[r]) /\ GetNaxes(reg[r]) = 4

\* C25: the constructor given a PointSet whose points have a number of
\* coordinates other than the number of axes of the Frame reports the
\* error AST__NCPIN and returns no Region.
C25_PointSetAxesChecked ==
  ( /\ last.op = "InitRegion" /\ last.pre = OK
    /\ last.ndim # 0 /\ last.ndim # FrameNaxes(last.frame) )
    => status = "AST__NCPIN" /\ last.region = NullRegion

\* The constructor has been given points of one coordinate and a Frame of
\* two axes.
C25_Witness ==
  /\ last.op = "InitRegion" /\ last.pre = OK
  /\ last.ndim = 1 /\ FrameNaxes(last.frame) = 2
  /\ last.region = NullRegion

\* C26: a SetUnc call that fails leaves the Region as it was: TestUnc is
\* the same after the call as before it.
C26_FailedSetUncKeepsState ==
  (last.op = "SetUnc" /\ last.pre = OK /\ status # OK)
    => (TestUnc(reg[last.a]) <=> last.result = 1)

\* The step is a call, entered with status clear, of SetUnc or ClearUnc.
UncAssigned == last'.op \in {"SetUnc", "ClearUnc"} /\ last'.pre = OK

\* C28: TestUnc is true exactly when the most recent SetUnc or ClearUnc was
\* a SetUnc that succeeded with a Box, Circle or Ellipse: such a SetUnc
\* makes it true, any other SetUnc and every ClearUnc make it false, and no
\* other call (GetUnc storing a default among them) changes it.
C28_TestUncFollowsLastSetUnc ==
  [][ /\ UncAssigned
        => (TestUnc(reg'[last'.a])
              <=> /\ last'.op = "SetUnc" /\ status' = OK
                  /\ last'.region # NullRegion
                  /\ last'.region.class \in UncClasses)
      /\ ~UncAssigned
        => \A r \in RegIds : TestUnc(reg'[r]) <=> TestUnc(reg[r]) ]_vars

\* GetUnc has stored a default uncertainty Region in a Region that has none
\* of its own.
C28_Witness ==
  /\ last.op = "GetUnc" /\ last.pre = OK
  /\ reg[last.a].unc # NullRegion
  /\ ~TestUnc(reg[last.a])

\* The position p of the current Frame of the Region is inside it.
InsideRegion(this, p) == RegionTransform(this, <<p>>)[1] # AST__BAD

\* The mesh of the Region in its current Frame.
MeshOf(this) == RegMesh(this, OK).mesh

\* Every point of mesh (current Frame of r1) is on the boundary of r1 to
\* within the uncertainties of r1 and r2.
PinnedTo(r1, r2, mesh) ==
  RegPins(r1, astTransform(RegMapping(r1), mesh, FALSE), GetUnc(r1, "BASE", OK).unc,
          MapRegion(GetUnc(r2, "CURRENT", OK).unc,
                    astGetMapping(r1.frameset, r1.frameset.current, r1.frameset.base),
                    CurFrame(r1), OK).region)

\* The code for region 1 and region 2, before codes 2 and 3 are exchanged.
TableCode(r1, r2) ==
  IF PinnedTo(r1, r2, MeshOf(r2))
  THEN IF astGetBounded(r1, OK) = astGetBounded(r2, OK) THEN 5 ELSE 6
  ELSE IF \A i \in 1..Len(MeshOf(r2)) : InsideRegion(r1, MeshOf(r2)[i])
  THEN IF astGetBounded(r2, OK) THEN 3 ELSE 4
  ELSE IF \E i \in 1..Len(MeshOf(r2)) : InsideRegion(r1, MeshOf(r2)[i])
  THEN 4
  ELSE IF ~astGetBounded(r1, OK)
  THEN IF astGetBounded(r2, OK) THEN 1 ELSE 2
  ELSE IF InsideRegion(r2, MeshOf(r1)[1]) THEN 2 ELSE 1

\* The result of Overlap(A, B) by the table: region 2 is B if B has a
\* finite boundary and A otherwise.
OverlapTable(A, B) ==
  IF ~NoFiniteBoundary(B) THEN TableCode(A, B)
  ELSE IF TableCode(B, A) = 2 THEN 3
  ELSE IF TableCode(B, A) = 3 THEN 2
  ELSE TableCode(B, A)

\* C27: when the Regions are neither equal nor equal after negating the
\* first, a conversion exists and no error occurs, Overlap(A,B) returns the
\* code of the table: 5 or 6 for a pinned mesh of region 2, 3 or 4 for a
\* mesh wholly inside region 1, 4 for a mesh partly inside, 1 or 2 for a
\* mesh in a hole of an unbounded region 1, 2 or 1 by the first mesh point
\* of a bounded region 1, with 2 and 3 exchanged when region 1 is B.
C27_OverlapClassification ==
  [][ \A a \in RegIds, b \in RegIds :
        ( /\ OverlapStep(a, b) /\ status' = OK
          /\ ~Equal(reg[a], reg[b]) /\ ~Equal(Negate(reg[a], OK), reg[b])
          /\ Convertible(CurFrame(reg[b]), CurFrame(reg[a])) )
        => last'.result = OverlapTable(reg[a], reg[b]) ]_vars

\* Overlap has compared a bounded Region with a second Region that has no
\* finite boundary and contains it: region 1 was B and code 3 became 2.
C27_Witness ==
  /\ OverlapDone /\ status = OK /\ last.result = 2
  /\ last.a # last.b
  /\ NoFiniteBoundary(reg[last.b])
  /\ ~NoFiniteBoundary(reg[last.a])

\* C30: Overlap(A,B) leaves a Negated attribute that is not set not set.
C30_OverlapKeepsNegatedUnset ==
  [][ (last'.op = "Overlap" /\ last'.pre = OK) =>
        \A r \in RegIds : ~TestNegated(reg[r]) => ~TestNegated(reg'[r]) ]_vars

\* The Region astMask tests the pixels with: the Region mapped into grid
\* coordinates, negated if inside is set.
MaskTester(this, map, ndim, inside) ==
  IF inside # 0 THEN Negate(MaskRegion(this, map, ndim, OK).region, OK)
  ELSE MaskRegion(this, map, ndim, OK).region

\* The pixels of the grid that the membership test made at every pixel
\* gives the value to.
EveryCell(tester) ==
  { i \in 1..Len(grid.data) : RegionTransform(tester, <<grid.lbnd + i - 1>>)[1] = AST__BAD }

\* The step is a call of astMask on reg[r] with arguments that pass its
\* checks, entered with the status clear and with no collaborator failing.
MaskStep(r) ==
  /\ status = OK
  /\ last'.op = "Mask" /\ last'.a = r /\ last'.fault = "none"
  /\ MaskRegion(reg[r], last'.map, last'.ndim,
                MaskStatus(reg[r], last'.map, last'.ndim, OK)).status = OK
  /\ grid.lbnd <= grid.ubnd

\* C29: Mask, which tests only the pixels of the bounding box of the Region
\* widened by two pixels and cut to the grid, leaves the data array and
\* returns the count that the membership test made at every pixel of the
\* grid gives.
C29_BoxShortcutIsEveryCell ==
  [][ \A r \in MaskIds :
        MaskStep(r) =>
          /\ \A i \in 1..Len(grid.data) :
                grid'.data[i] =
                  IF i \in EveryCell(MaskTester(reg[r], last'.map, last'.ndim, last'.inside))
                  THEN last'.val ELSE grid.data[i]
          /\ last'.result =
               Cardinality(EveryCell(MaskTester(reg[r], last'.map, last'.ndim,
                                                last'.inside))) ]_vars

(***************************************************************************)
(* A sixth state machine: a caller that goes on calling the functions of   *)
(* a Region after one of them has failed.                                  *)
(***************************************************************************)
\* The Region the functions are called on.
ErrIds == {1}

\* The arguments given to astMask: right ones and a wrong number of axes.
ErrMaskArgs == { <<NoMap, 1>>, <<NoMap, 2>> }

\* The uncertainty Regions given to astSetUnc: a Box and an Interval.
ErrUncs == { UncBox(1, "F"), astInitRegion("Interval", "F", <<0>>, NullRegion) }

\* The value MeshSize is set to.
ErrMeshSizes == {6}

InitErr ==
  /\ reg = [r \in RegIds |->
              IF r \in ErrIds THEN astInitRegion("Box", "F", <<0, 1>>, UncBox(1, "F"))
              ELSE astInitRegion("Box", "F", <<0, MaxCoord>>, NullRegion)]
  /\ grid = [lbnd |-> 0, ubnd |-> 1, data |-> <<1, 0>>]
  /\ status = OK
  /\ last = NoCall
  /\ held = NoHeld

NextErr ==
  \/ \E r \in ErrIds : NegateAct(r)
  \/ \E a \in ErrIds, b \in RegIds \ ErrIds, f \in Faults : OverlapAct(a, b, f)
  \/ \E r \in ErrIds, m \in MapInputs, f \in MapFrames : MapRegionAct(r, m, f)
  \/ \E r \in ErrIds, a \in ErrMaskArgs, inside \in {0, 1} :
        MaskAct(r, a[1], a[2], inside, "none")
  \/ \E r \in ErrIds, u \in ErrUncs : SetUncAct(r, u)
  \/ \E r \in ErrIds : ClearUncAct(r)
  \/ \E r \in ErrIds : GetUncAct(r, "BASE")
  \/ \E r \in ErrIds : RegMeshAct(r)
  \/ \E r \in ErrIds, v \in ErrMeshSizes : SetMeshSizeAct(r, v)
  \/ \E r \in ErrIds : ClearMeshSizeAct(r)
  \/ ClearStatusAct

SpecErr == InitErr /\ [][NextErr]_vars

\* What the functions that return something return for reg[r] while the
\* status is set: no Region, no mesh and a count or a code of 0, with the
\* data array as it is.
NeutralReturns(r) ==
  /\ \A m \in MapInputs, f \in MapFrames :
        MapRegion(reg[r], m, f, status).region = NullRegion
  /\ \A b \in RegIds, f \in Faults : Overlap(reg[r], reg[b], status, f).result = 0
  /\ \A a \in MaskArgs, inside \in {0, 1}, f \in MaskFaults :
        /\ Mask(reg[r], a[1], inside, a[2], grid.lbnd, grid.ubnd, grid.data,
                MaskVal, status, f).result = 0
        /\ Mask(reg[r], a[1], inside, a[2], grid.lbnd, grid.ubnd, grid.data,
                MaskVal, status, f).data = grid.data
  /\ \A ifrm \in {"BASE", "CURRENT"} : GetUnc(reg[r], ifrm, status).unc = NullRegion
  /\ RegMesh(reg[r], status).mesh = NullMesh

\* C23: while the status is set every call (Negate, MapRegion, Overlap,
\* Mask, SetUnc, ClearUnc, GetUnc, RegMesh, setting and clearing MeshSize)
\* leaves the Regions, the data array and the status as they are and
\* returns 0 or no object; only clearing the status ends this.
C23_NoOpWhileStatusSet ==
  [][ status # OK =>
        /\ \A r \in ErrIds : NeutralReturns(r)
        /\ last'.op # "ClearStatus"
             => reg' = reg /\ grid' = grid /\ status' = status ]_vars

\* ClearUnc has been called with the status set on a Region that has an
\* uncertainty Region of its own.
C23_Witness ==
  /\ last.op = "ClearUnc" /\ last.pre # OK /\ status # OK
  /\ \E r \in ErrIds : TestUnc(reg[r])

====
